---- MODULE Spec2Model ----
(***************************************************************************)
(* Model of VersionedKvStore<K, V> (src/VersionedKvStore.h): a hash table  *)
(* from keys to backward-linked chains of Diff nodes on the heap, plus the *)
(* vector `sizes` of live-key counts, one entry per version.               *)
(*                                                                         *)
(* Diff nodes live at heap addresses; `new Diff()` takes the least free    *)
(* address and `delete` returns the address to the free set.  size_t is    *)
(* modelled as an unsigned integer of SizeBits bits (arithmetic modulo     *)
(* 2^SizeBits), a narrow stand-in for the platform's width.  Version       *)
(* numbers stay far below 2^31 here, so the unsigned -> int -> unsigned    *)
(* conversions around traverseToVersion's parameter keep their value.      *)
(***************************************************************************)
EXTENDS Integers, Sequences, FiniteSets, TLC

\* ---- bounds of the model ----
NumKeys == 2
MaxValue == 1
MaxOps == 5
\* calls of the writer thread in the two-thread specification
MaxConcCalls == 3
SizeBits == 2

Keys == 1..NumKeys
Values == 0..MaxValue
\* V(): the value-initialised V
DefaultValue == 0
\* nullptr
NULL == 0
\* every Diff is allocated by a set or an erase call
Addrs == 1..MaxOps
SizeMod == 2^SizeBits
\* version numbers a caller may pass to get/exists/size(.., version_num)
\* (every save() is a call, so maxVersion() <= MaxOps)
VersionNums == 0..(MaxOps + 2)

VARIABLES
    key_value_store,  \* K -> Diff*  (NULL: no entry, or an entry holding nullptr)
    heap,             \* address -> Diff
    allocated,        \* addresses of the Diff nodes that are allocated and not freed
    sizes,            \* vector<size_t>; sizes[i + 1] is the count of version i
    last,             \* history: the last call, its arguments, result and pre-state
    snaps,            \* history: version returned by save() -> what the reads returned then
    lastMut,          \* history: per key, its most recent mutation
    nOps,             \* history: number of set/erase/save calls made so far
    wr,               \* two threads: where the writer is inside set/erase
    walk              \* two threads: the reader's exists(key, version_num) call

vars == <<key_value_store, heap, allocated, sizes, last, snaps, lastMut, nOps, wr, walk>>

\* contents of a heap cell that holds no Diff
FreeCell == [deleted |-> FALSE, prev_diff |-> NULL, version |-> 0, value |-> DefaultValue]

\* ---- observers ----
\* variant: the number of ledger entries, without the - 1
maxVersion_OffByOne == Len(sizes)

maxVersion == Len(sizes) - 1

exists(key) == key_value_store[key] # NULL /\ ~heap[key_value_store[key]].deleted

get(key) == IF ~exists(key) THEN DefaultValue ELSE heap[key_value_store[key]].value

size == sizes[Len(sizes)]

sizeAt(version_num) == IF maxVersion < version_num THEN size ELSE sizes[version_num + 1]

RECURSIVE traverseLoop(_, _)
traverseLoop(curr, version_num) ==
    IF curr # NULL /\ heap[curr].prev_diff # NULL
          /\ version_num < heap[heap[curr].prev_diff].version
    THEN traverseLoop(heap[curr].prev_diff, version_num)
    ELSE curr

\* variant: the last step compares with <= and so also leaves a diff of the
\* requested version itself
traverseToVersion_Strict(key, version_num) ==
    LET curr == traverseLoop(key_value_store[key], version_num)
    IN  IF curr # NULL /\ version_num <= heap[curr].version
        THEN heap[curr].prev_diff
        ELSE curr

\* variant: an `if` in place of the `while`, at most one step back from the head
traverseToVersion_OneStep(key, version_num) ==
    LET curr == key_value_store[key]
    IN  IF curr # NULL /\ version_num < heap[curr].version
        THEN heap[curr].prev_diff
        ELSE curr

traverseToVersion(key, version_num) ==
    LET curr == traverseLoop(key_value_store[key], version_num)
    IN  IF curr # NULL /\ version_num < heap[curr].version
        THEN heap[curr].prev_diff
        ELSE curr

existsAt(key, version_num) ==
    LET diff == traverseToVersion(key, version_num)
    IN  diff # NULL /\ ~heap[diff].deleted

getAt(key, version_num) ==
    IF ~existsAt(key, version_num)
    THEN DefaultValue
    ELSE heap[traverseToVersion(key, version_num)].value

\* ---- private helpers ----
\* the address `new Diff()` returns
freshAddr == CHOOSE a \in Addrs \ allocated : \A b \in Addrs \ allocated : a <= b

\* variant: the version of the new diff is left value-initialised
newDiff_VersionZero == [deleted |-> FALSE, prev_diff |-> NULL, version |-> 0, value |-> DefaultValue]

newDiff == [deleted |-> FALSE, prev_diff |-> NULL, version |-> maxVersion, value |-> DefaultValue]

\* variant: compares the tombstone flags only
diffsEqual_DeletedOnly(h, d1, d2) == h[d1].deleted = h[d2].deleted

\* variant: compares the whole structs, version and link included
diffsEqual_WholeStruct(h, d1, d2) == h[d1] = h[d2]

diffsEqual(h, d1, d2) == h[d1].value = h[d2].value /\ h[d1].deleted = h[d2].deleted

\* variant: deletes the duplicate head but leaves the table pointing at it
checkAndDeleteRedundantDiff_KeepsHead(st, key) ==
    LET head == st.kvs[key]
        prev == st.heap[head].prev_diff
    IN  IF prev # NULL /\ diffsEqual(st.heap, head, prev)
        THEN [kvs   |-> st.kvs,
              heap  |-> st.heap,
              alloc |-> st.alloc \ {head}]
        ELSE st

\* variant: no compaction
checkAndDeleteRedundantDiff_Skip(st, key) == st

\* variant: unlinks the duplicate head without deleting it
checkAndDeleteRedundantDiff_Leak(st, key) ==
    LET head == st.kvs[key]
        prev == st.heap[head].prev_diff
    IN  IF prev # NULL /\ diffsEqual(st.heap, head, prev)
        THEN [kvs   |-> [st.kvs EXCEPT ![key] = prev],
              heap  |-> st.heap,
              alloc |-> st.alloc]
        ELSE st

\* variant: keeps the head and deletes the predecessor it duplicates
checkAndDeleteRedundantDiff_DropsPrev(st, key) ==
    LET head == st.kvs[key]
        prev == st.heap[head].prev_diff
    IN  IF prev # NULL /\ diffsEqual(st.heap, head, prev)
        THEN [kvs   |-> st.kvs,
              heap  |-> [st.heap EXCEPT ![head].prev_diff = st.heap[prev].prev_diff,
                                        ![prev] = FreeCell],
              alloc |-> st.alloc \ {prev}]
        ELSE st

\* st = [kvs, heap, alloc]: the store after the mutation, before compaction
checkAndDeleteRedundantDiff(st, key) ==
    LET head == st.kvs[key]
        prev == st.heap[head].prev_diff
    IN  IF prev # NULL /\ diffsEqual(st.heap, head, prev)
        THEN [kvs   |-> [st.kvs EXCEPT ![key] = prev],
              heap  |-> [st.heap EXCEPT ![head] = FreeCell],
              alloc |-> st.alloc \ {head}]
        ELSE st

\* sizes.back() += 1 / -= 1 on a size_t
sizesBackInc(s) == [s EXCEPT ![Len(s)] = (@ + 1) % SizeMod]

\* variant: decrements sizes.front()
sizesBackDec_Front(s) == [s EXCEPT ![1] = (@ + SizeMod - 1) % SizeMod]

\* variant: stops at 0 instead of wrapping
sizesBackDec_Saturating(s) == [s EXCEPT ![Len(s)] = IF @ = 0 THEN 0 ELSE @ - 1]

sizesBackDec(s) == [s EXCEPT ![Len(s)] = (@ + SizeMod - 1) % SizeMod]

\* variant: takes every head for one of the open version
headIsCurrent_IgnoresVersion(key) == heap[key_value_store[key]].version <= maxVersion

\* the head of key's chain was created in the open version
headIsCurrent(key) == heap[key_value_store[key]].version = maxVersion

\* ---- set ----
setMutate(key, value) ==
    IF key_value_store[key] = NULL
    THEN [kvs   |-> [key_value_store EXCEPT ![key] = freshAddr],
          heap  |-> [heap EXCEPT ![freshAddr] = [newDiff EXCEPT !.value = value]],
          alloc |-> allocated \cup {freshAddr}]
    ELSE IF ~headIsCurrent(key)
    THEN [kvs   |-> [key_value_store EXCEPT ![key] = freshAddr],
          heap  |-> [heap EXCEPT ![freshAddr] =
                        [newDiff EXCEPT !.value = value, !.prev_diff = key_value_store[key]]],
          alloc |-> allocated \cup {freshAddr}]
    ELSE [kvs   |-> key_value_store,
          heap  |-> [heap EXCEPT ![key_value_store[key]] = [@ EXCEPT !.deleted = FALSE, !.value = value]],
          alloc |-> allocated]

setSizes(key) ==
    IF key_value_store[key] = NULL
    THEN sizesBackInc(sizes)
    ELSE IF ~headIsCurrent(key) /\ heap[key_value_store[key]].deleted
    THEN sizesBackInc(sizes)
    ELSE sizes

\* ---- erase ----
eraseMutate(key) ==
    IF ~headIsCurrent(key)
    THEN [kvs   |-> [key_value_store EXCEPT ![key] = freshAddr],
          heap  |-> [heap EXCEPT ![freshAddr] =
                        [newDiff EXCEPT !.deleted = TRUE, !.prev_diff = key_value_store[key]]],
          alloc |-> allocated \cup {freshAddr}]
    ELSE [kvs   |-> key_value_store,
          heap  |-> [heap EXCEPT ![key_value_store[key]] = [@ EXCEPT !.deleted = TRUE]],
          alloc |-> allocated]

\* variant: decrements only when the key is live
eraseSizes_IfExists(key) ==
    IF exists(key) THEN sizesBackDec(sizes) ELSE sizes

eraseSizes(key) ==
    IF key_value_store[key] = NULL THEN sizes ELSE sizesBackDec(sizes)

\* ---- save ----
\* variant: the new version starts with a count of 0
saveSizes_Zero == Append(sizes, 0)

saveSizes == Append(sizes, size)

\* ---- history ----
\* what the head of key's chain is: "none", "live" or "tomb"
headKind(key) ==
    IF key_value_store[key] = NULL THEN "none"
    ELSE IF heap[key_value_store[key]].deleted THEN "tomb" ELSE "live"

Call(op, key, value, ret) ==
    [op |-> op, key |-> key, value |-> value, ret |-> ret,
     preSize |-> size, preHead |-> IF key \in Keys THEN headKind(key) ELSE "none"]

Snapshot == [get |-> [k \in Keys |-> get(k)], exists |-> [k \in Keys |-> exists(k)], size |-> size]

\* the writer between calls; the reader before its call
WriterIdle == [pc |-> "idle", key |-> 0]
WalkIdle == [pc |-> "idle", key |-> 0, ver |-> 0, curr |-> NULL,
             overlap |-> FALSE, freed |-> {}, res |-> "none"]

\* ---- the operations ----
Init ==
    /\ key_value_store = [k \in Keys |-> NULL]
    /\ heap = [a \in Addrs |-> FreeCell]
    /\ allocated = {}
    /\ sizes = <<0>>
    /\ last = [op |-> "init", key |-> 0, value |-> DefaultValue, ret |-> 0,
               preSize |-> 0, preHead |-> "none"]
    /\ snaps = <<>>
    /\ lastMut = [k \in Keys |-> <<"none">>]
    /\ nOps = 0
    /\ wr = WriterIdle
    /\ walk = WalkIdle

Set(key, value) ==
    LET st == checkAndDeleteRedundantDiff(setMutate(key, value), key)
    IN  /\ nOps < MaxOps
        /\ nOps' = nOps + 1
        /\ key_value_store' = st.kvs
        /\ heap' = st.heap
        /\ allocated' = st.alloc
        /\ sizes' = setSizes(key)
        /\ last' = Call("set", key, value, 0)
        /\ lastMut' = [lastMut EXCEPT ![key] = <<"set", value>>]
        /\ UNCHANGED <<snaps, wr, walk>>

Erase(key) ==
    /\ nOps < MaxOps
    /\ nOps' = nOps + 1
    /\ IF key_value_store[key] = NULL
       THEN UNCHANGED <<key_value_store, heap, allocated>>
       ELSE LET st == checkAndDeleteRedundantDiff(eraseMutate(key), key)
            IN  /\ key_value_store' = st.kvs
                /\ heap' = st.heap
                /\ allocated' = st.alloc
    /\ sizes' = eraseSizes(key)
    /\ last' = Call("erase", key, DefaultValue, 0)
    /\ lastMut' = [lastMut EXCEPT ![key] = <<"erase">>]
    /\ UNCHANGED <<snaps, wr, walk>>

Save ==
    /\ nOps < MaxOps
    /\ nOps' = nOps + 1
    /\ sizes' = saveSizes
    /\ last' = Call("save", 0, DefaultValue, maxVersion)
    /\ snaps' = Append(snaps, [version |-> maxVersion, view |-> Snapshot])
    /\ UNCHANGED <<key_value_store, heap, allocated, lastMut, wr, walk>>

Next ==
    \/ \E key \in Keys, value \in Values : Set(key, value)
    \/ \E key \in Keys : Erase(key)
    \/ Save

Spec == Init /\ [][Next]_vars

\* ---- two threads, no lock ----
\* A writer thread runs set/erase/save; set and erase take two steps, the
\* update of the table and the head diff, then checkAndDeleteRedundantDiff.
\* A reader thread runs one exists(key, version_num): the load of the head
\* pointer, one step per test of the while loop, the last step back, and the
\* read of diff->deleted.  walk.overlap records that a writer step fell
\* inside the walk, walk.freed the diffs deleted since the walk began.  Reads
\* and writes of single table entries and fields are taken as atomic.

WalkActive == walk.pc \in {"loop", "final", "return"}

\* the walk's bookkeeping of a writer step that deletes the diffs in `gone`
Overlapped(gone) ==
    IF WalkActive
    THEN [walk EXCEPT !.overlap = TRUE, !.freed = @ \cup gone]
    ELSE walk

\* the pointer refers to a diff that has been deleted
Dangling(diff) == diff # NULL /\ (diff \notin allocated \/ diff \in walk.freed)

\* reading through a dangling pointer is undefined: the call may crash or
\* return either answer
UseAfterFree(diff) ==
    \E outcome \in {"crash", "true", "false"} :
        walk' = [walk EXCEPT !.pc = "uaf", !.curr = diff, !.res = outcome]

ConcSetMutate(key, value) ==
    LET st == setMutate(key, value)
    IN  /\ wr.pc = "idle"
        /\ nOps < MaxConcCalls
        /\ nOps' = nOps + 1
        /\ key_value_store' = st.kvs
        /\ heap' = st.heap
        /\ allocated' = st.alloc
        /\ sizes' = setSizes(key)
        /\ wr' = [pc |-> "compact", key |-> key]
        /\ walk' = Overlapped({})
        /\ UNCHANGED <<last, snaps, lastMut>>

ConcEraseMutate(key) ==
    /\ wr.pc = "idle"
    /\ nOps < MaxConcCalls
    /\ nOps' = nOps + 1
    /\ IF key_value_store[key] = NULL
       THEN UNCHANGED <<key_value_store, heap, allocated, wr>>
       ELSE LET st == eraseMutate(key)
            IN  /\ key_value_store' = st.kvs
                /\ heap' = st.heap
                /\ allocated' = st.alloc
                /\ wr' = [pc |-> "compact", key |-> key]
    /\ sizes' = eraseSizes(key)
    /\ walk' = Overlapped({})
    /\ UNCHANGED <<last, snaps, lastMut>>

ConcCompact ==
    LET st == checkAndDeleteRedundantDiff(
                  [kvs |-> key_value_store, heap |-> heap, alloc |-> allocated], wr.key)
    IN  /\ wr.pc = "compact"
        /\ key_value_store' = st.kvs
        /\ heap' = st.heap
        /\ allocated' = st.alloc
        /\ wr' = WriterIdle
        /\ walk' = Overlapped(allocated \ st.alloc)
        /\ UNCHANGED <<sizes, last, snaps, lastMut, nOps>>

ConcSave ==
    /\ wr.pc = "idle"
    /\ nOps < MaxConcCalls
    /\ nOps' = nOps + 1
    /\ sizes' = saveSizes
    /\ walk' = Overlapped({})
    /\ UNCHANGED <<key_value_store, heap, allocated, last, snaps, lastMut, wr>>

\* Diff* curr = key_value_store[key];
WalkStart(key, version_num) ==
    /\ walk.pc = "idle"
    /\ walk' = [pc |-> "loop", key |-> key, ver |-> version_num,
                curr |-> key_value_store[key],
                overlap |-> (wr.pc # "idle"), freed |-> {}, res |-> "none"]
    /\ UNCHANGED <<key_value_store, heap, allocated, sizes, last, snaps, lastMut, nOps, wr>>

\* while (curr && curr->prev_diff && version_num < curr->prev_diff->version)
\*     curr = curr->prev_diff;
WalkLoop ==
    /\ walk.pc = "loop"
    /\ IF walk.curr = NULL
       THEN walk' = [walk EXCEPT !.pc = "final"]
       ELSE IF Dangling(walk.curr)
       THEN UseAfterFree(walk.curr)
       ELSE LET prev == heap[walk.curr].prev_diff
            IN  IF prev = NULL
                THEN walk' = [walk EXCEPT !.pc = "final"]
                ELSE IF Dangling(prev)
                THEN UseAfterFree(prev)
                ELSE IF walk.ver < heap[prev].version
                THEN walk' = [walk EXCEPT !.curr = prev]
                ELSE walk' = [walk EXCEPT !.pc = "final"]
    /\ UNCHANGED <<key_value_store, heap, allocated, sizes, last, snaps, lastMut, nOps, wr>>

\* if (curr && version_num < curr->version) curr = curr->prev_diff;
WalkFinal ==
    /\ walk.pc = "final"
    /\ IF walk.curr = NULL
       THEN walk' = [walk EXCEPT !.pc = "return"]
       ELSE IF Dangling(walk.curr)
       THEN UseAfterFree(walk.curr)
       ELSE IF walk.ver < heap[walk.curr].version
       THEN walk' = [walk EXCEPT !.pc = "return", !.curr = heap[walk.curr].prev_diff]
       ELSE walk' = [walk EXCEPT !.pc = "return"]
    /\ UNCHANGED <<key_value_store, heap, allocated, sizes, last, snaps, lastMut, nOps, wr>>

\* return diff && !diff->deleted;
WalkReturn ==
    /\ walk.pc = "return"
    /\ IF walk.curr = NULL
       THEN walk' = [WalkIdle EXCEPT !.pc = "done", !.overlap = walk.overlap, !.res = "false"]
       ELSE IF Dangling(walk.curr)
       THEN UseAfterFree(walk.curr)
       ELSE walk' = [WalkIdle EXCEPT !.pc = "done", !.overlap = walk.overlap,
                                     !.res = IF heap[walk.curr].deleted THEN "false" ELSE "true"]
    /\ UNCHANGED <<key_value_store, heap, allocated, sizes, last, snaps, lastMut, nOps, wr>>

NextConc ==
    \/ \E key \in Keys, value \in Values : ConcSetMutate(key, value)
    \/ \E key \in Keys : ConcEraseMutate(key)
    \/ ConcCompact
    \/ ConcSave
    \/ \E key \in Keys, version_num \in 0..(MaxConcCalls + 1) : WalkStart(key, version_num)
    \/ WalkLoop
    \/ WalkFinal
    \/ WalkReturn

SpecConc == Init /\ [][NextConc]_vars

\* ---- the diff chain of a key, head first ----
RECURSIVE chainFrom(_)
chainFrom(diff) ==
    IF diff = NULL THEN <<>>
    ELSE <<[addr |-> diff, node |-> heap[diff]]>> \o chainFrom(heap[diff].prev_diff)

Chain(key) == chainFrom(key_value_store[key])

\* number of keys that exist in the current view / in version i
LiveCount == Cardinality({k \in Keys : exists(k)})
LiveCountAt(i) == Cardinality({k \in Keys : existsAt(k, i)})

Mutation == {"set", "erase"}

\* ======================= claims =======================

\* C1: for every version v that a save() returned and every key k, get(k, v)
\* and exists(k, v) return what get(k) and exists(k) returned when that save()
\* returned v, whatever set, erase or save calls came afterwards.
C1_SnapshotReads ==
    \A i \in 1..Len(snaps) : \A k \in Keys :
        /\ getAt(k, snaps[i].version) = snaps[i].view.get[k]
        /\ existsAt(k, snaps[i].version) = snaps[i].view.exists[k]

\* a snapshot whose key was live has since been overwritten in a later version,
\* and a second snapshot lies in between
C1_Witness ==
    /\ Len(snaps) >= 2
    /\ last.op \in Mutation
    /\ \E k \in Keys :
          /\ snaps[1].view.exists[k]
          /\ snaps[1].view.get[k] # get(k)
          /\ snaps[2].view.exists[k] # snaps[1].view.exists[k]

\* C2: for every key, if its most recent mutation was set(k, x) then exists(k)
\* and get(k) = x; if it was erase(k), or there was none, then ~exists(k) and
\* get(k) is the default value.
C2_LastWriterWins ==
    \A k \in Keys :
        /\ lastMut[k][1] = "set" => exists(k) /\ get(k) = lastMut[k][2]
        /\ lastMut[k][1] \in {"erase", "none"} => ~exists(k) /\ get(k) = DefaultValue

\* a key re-set after saves to the value an older diff holds, next to an erased key
C2_Witness ==
    /\ maxVersion >= 1
    /\ \E k \in Keys :
          /\ lastMut[k] = <<"set", 1>>
          /\ last = [op |-> "set", key |-> k, value |-> 1, ret |-> 0,
                     preSize |-> last.preSize, preHead |-> "live"]
          /\ Len(Chain(k)) = 1
          /\ Chain(k)[1].node.version < maxVersion
    /\ \E k \in Keys : lastMut[k] = <<"erase">> /\ Chain(k) # <<>>

\* C3: for every version i in 0..maxVersion(), size(i) is the number of keys k
\* with exists(k, i).
C3_SizeLedger ==
    \A i \in 0..maxVersion : sizeAt(i) = LiveCountAt(i)

\* C4: a new store has maxVersion() = 0 and size() = 0; save() returns the
\* maxVersion() of before the call and raises it by one; set and erase leave it
\* alone; so the n-th save() returns n - 1 and maxVersion() is the number of
\* save() calls.
C4_Numbering ==
    /\ maxVersion = 0 /\ size = 0
    /\ [](/\ maxVersion = Len(snaps)
          /\ \A i \in 1..Len(snaps) : snaps[i].version = i - 1)
    /\ [][/\ last'.op = "save" => last'.ret = maxVersion /\ maxVersion' = maxVersion + 1
          /\ last'.op \in Mutation => maxVersion' = maxVersion]_vars

\* the third save() has returned
C4_Witness == last.op = "save" /\ last.ret = 2 /\ Len(snaps) = 3 /\ maxVersion = 3

\* C5: size(v) of a version v returned by save() is the size() of the moment
\* that save() returned, and a later set, erase or save changes no entry of
\* the ledger but the one of the open version.
C5_SealedSizes ==
    /\ [](\A i \in 1..Len(snaps) : sizeAt(snaps[i].version) = snaps[i].view.size)
    /\ [][/\ \A i \in 0..(maxVersion - 1) : sizeAt(i)' = sizeAt(i)
          /\ last'.op \in Mutation =>
                /\ Len(sizes') = Len(sizes)
                /\ \A j \in 1..(Len(sizes) - 1) : sizes'[j] = sizes[j]]_vars

\* two sealed versions with different sizes, and a mutation that moved size() since
C5_Witness ==
    /\ Len(snaps) >= 2
    /\ snaps[1].view.size # snaps[2].view.size
    /\ last.op \in Mutation
    /\ size # last.preSize
    /\ size # snaps[2].view.size

\* C6: for every key k and every version number n >= maxVersion(),
\* get(k, n) = get(k), exists(k, n) = exists(k) and size(n) = size().
C6_Fallback ==
    \A n \in VersionNums : n >= maxVersion =>
        /\ sizeAt(n) = size
        /\ \A k \in Keys : getAt(k, n) = get(k) /\ existsAt(k, n) = exists(k)

\* the open version differs from the last sealed one in a key and in the size
C6_Witness ==
    /\ maxVersion >= 1
    /\ sizeAt(maxVersion - 1) # size
    /\ \E k \in Keys :
          /\ Len(Chain(k)) >= 2
          /\ getAt(k, maxVersion - 1) # get(k)
          /\ getAt(k, maxVersion + 2) = get(k)

\* C7 as stated: erase(key) decrements size() by one in all cases, also when
\* the key was never passed to set.
C7_EraseAlwaysDecrements ==
    [][last'.op = "erase" => size' = (size + SizeMod - 1) % SizeMod]_vars

\* C7 amended: erase(key) decrements size() by one (modulo 2^w) when the key
\* has an entry, live or tombstoned, and leaves size() unchanged when the key
\* has none.
C7_EraseDecrementsIfEntry ==
    [][last'.op = "erase" =>
          IF key_value_store[last'.key] = NULL
          THEN size' = size
          ELSE size' = (size + SizeMod - 1) % SizeMod]_vars

\* erase of a key without an entry, next to a live key: size() stayed at 1
C7_Witness ==
    /\ last.op = "erase" /\ last.preHead = "none"
    /\ last.preSize = 1 /\ size = 1 /\ LiveCount = 1

\* C8: erase(key) of a key whose head diff is a tombstone decrements size() by
\* one although the number of live keys stays the same, and wraps size() from
\* 0 to 2^w - 1.
C8_EraseTombstoneWraps ==
    [][last'.op = "erase" /\ headKind(last'.key) = "tomb" =>
          /\ LiveCount' = LiveCount
          /\ size' = (size + SizeMod - 1) % SizeMod
          /\ size = 0 => size' = SizeMod - 1
          /\ size > 0 => size' = size - 1]_vars

\* the tombstoned key was erased again at size() = 0: no key lives, size() = 2^w - 1
C8_Witness ==
    /\ last.op = "erase" /\ last.preHead = "tomb" /\ last.preSize = 0
    /\ size = SizeMod - 1
    /\ LiveCount = 0

\* C9: set(k, x) and erase(k) leave, for every other key k2 and every version
\* number n, get(k2), exists(k2), get(k2, n), exists(k2, n) and the diff chain
\* of k2 as they were.
C9_PerKeyFrame ==
    [][last'.op \in Mutation =>
          \A k2 \in Keys \ {last'.key} :
              /\ Chain(k2)' = Chain(k2)
              /\ get(k2)' = get(k2)
              /\ exists(k2)' = exists(k2)
              /\ \A n \in VersionNums :
                    /\ getAt(k2, n)' = getAt(k2, n)
                    /\ existsAt(k2, n)' = existsAt(k2, n)]_vars

\* a mutation of a key with an entry while another key has a chain of two diffs
C9_Witness ==
    /\ last.op \in Mutation
    /\ last.preHead # "none"
    /\ \E k2 \in Keys \ {last.key} : Len(Chain(k2)) >= 2

\* C10: save() changes neither get(k) nor exists(k) of any key, nor size(),
\* nor any diff chain.
C10_SaveFrame ==
    [][last'.op = "save" =>
          /\ size' = size
          /\ key_value_store' = key_value_store
          /\ heap' = heap
          /\ allocated' = allocated
          /\ \A k \in Keys :
                /\ get(k)' = get(k)
                /\ exists(k)' = exists(k)
                /\ Chain(k)' = Chain(k)]_vars

\* a save() of a store with a live key, a tombstoned key and a chain of two diffs
C10_Witness ==
    /\ last.op = "save"
    /\ size = last.preSize /\ size >= 1
    /\ \E k \in Keys : exists(k) /\ get(k) # DefaultValue
    /\ \E k \in Keys : headKind(k) = "tomb" /\ Len(Chain(k)) >= 2

\* C11 as stated: set(key, value) raises size() by one when the key is not
\* live just before the call, and leaves size() unchanged when it is live.
C11_SetSize ==
    [][last'.op = "set" =>
          IF exists(last'.key)
          THEN size' = size
          ELSE size' = (size + 1) % SizeMod]_vars

\* C12: walking a key's chain from the head backward yields strictly
\* decreasing versions, and the head's version is at most maxVersion().
C12_VersionOrder ==
    \A k \in Keys :
        LET c == Chain(k)
        IN  /\ \A i \in 1..(Len(c) - 1) : c[i].node.version > c[i + 1].node.version
            /\ c # <<>> => c[1].node.version <= maxVersion

\* a chain of three diffs, the oldest of version 0
C12_Witness ==
    \E k \in Keys :
        /\ Len(Chain(k)) = 3
        /\ Chain(k)[3].node.version = 0
        /\ Chain(k)[1].node.version = maxVersion

\* C13: no two adjacent nodes of a chain carry identical (value, deleted).
C13_Compaction ==
    \A k \in Keys :
        LET c == Chain(k)
        IN  \A i \in 1..(Len(c) - 1) :
                ~(/\ c[i].node.value = c[i + 1].node.value
                  /\ c[i].node.deleted = c[i + 1].node.deleted)

\* a set whose head was discarded (the head is older than the open version),
\* on a chain that still has two diffs
C13_Witness ==
    /\ last.op = "set"
    /\ Len(Chain(last.key)) = 2
    /\ Chain(last.key)[1].node.version < maxVersion

\* what a reader sees of key in version v; version -1 is the store before any call
Observed(key, v) ==
    IF v < 0 THEN <<FALSE, DefaultValue>> ELSE <<existsAt(key, v), getAt(key, v)>>

\* C14 as stated: adjacent nodes of a chain are never both tombstones and never
\* both live with equal values, so a chain has at most as many nodes as there
\* are versions in which the key's observable state differs from the version
\* before.
C14_ObservableChange ==
    \A k \in Keys :
        LET c == Chain(k)
        IN  /\ \A i \in 1..(Len(c) - 1) :
                  /\ ~(c[i].node.deleted /\ c[i + 1].node.deleted)
                  /\ ~(/\ ~c[i].node.deleted /\ ~c[i + 1].node.deleted
                       /\ c[i].node.value = c[i + 1].node.value)
            /\ Len(c) <= Cardinality({v \in 0..maxVersion :
                                         Observed(k, v) # Observed(k, v - 1)})

\* C15: set(k, x) on a key that is live with value x leaves the number of
\* nodes of k's chain unchanged, in the same open version and after save()s.
C15_ResetSameValue ==
    [][\A k \in Keys :
          last'.op = "set" /\ last'.key = k /\ exists(k) /\ get(k) = last'.value =>
              /\ Len(Chain(k))' = Len(Chain(k))
              /\ Cardinality(allocated') = Cardinality(allocated)]_vars

\* set(k, x); save(); set(k, x); save(); set(k, x): one diff, of version 0
C15_Witness ==
    /\ last.op = "set" /\ last.preHead = "live"
    /\ maxVersion >= 2
    /\ Len(snaps) >= 2
    /\ snaps[1].view.exists[last.key] /\ snaps[1].view.get[last.key] = last.value
    /\ snaps[2].view.exists[last.key] /\ snaps[2].view.get[last.key] = last.value
    /\ Len(Chain(last.key)) = 1
    /\ Chain(last.key)[1].node.version = 0
    /\ get(last.key) = last.value

\* C16: a diff whose version is below maxVersion() is neither modified nor
\* freed by a later call; a diff that a call modifies or frees is the head of
\* the key's chain and has version maxVersion().
C16_SealedDiffs ==
    [][\A a \in allocated :
          /\ heap[a].version < maxVersion => a \in allocated' /\ heap'[a] = heap[a]
          /\ (a \notin allocated' \/ heap'[a] # heap[a]) =>
                /\ heap[a].version = maxVersion
                /\ last'.op \in Mutation
                /\ key_value_store[last'.key] = a]_vars

\* set on a tombstone of the open version, in place (size() stays), with a
\* sealed diff behind it
C16_Witness ==
    /\ last.op = "set" /\ last.preHead = "tomb"
    /\ size = last.preSize
    /\ Len(Chain(last.key)) >= 2
    /\ Chain(last.key)[1].node.version = maxVersion
    /\ Chain(last.key)[2].node.version < maxVersion

\* C17: the walk of get(key, n) / exists(key, n) lands on the node of the
\* greatest version <= n in the key's chain, and on no node when there is
\* none (the key is then absent: exists false, get default).
C17_HistoricalLookup ==
    \A k \in Keys : \A n \in VersionNums :
        LET c == Chain(k)
            atMost == {i \in 1..Len(c) : c[i].node.version <= n}
        IN  IF atMost = {}
            THEN /\ traverseToVersion(k, n) = NULL
                 /\ ~existsAt(k, n)
                 /\ getAt(k, n) = DefaultValue
            ELSE \E i \in atMost :
                    /\ \A j \in atMost : c[j].node.version <= c[i].node.version
                    /\ traverseToVersion(k, n) = c[i].addr

\* a chain of diffs of versions 2 and 1: the walk for 0 finds none, for 1 the
\* older diff, for 3 the head
C17_Witness ==
    \E k \in Keys :
        /\ Len(Chain(k)) = 2
        /\ Chain(k)[2].node.version = 1
        /\ traverseToVersion(k, 0) = NULL
        /\ traverseToVersion(k, 1) = Chain(k)[2].addr
        /\ traverseToVersion(k, 3) = Chain(k)[1].addr

\* the addresses of the nodes of key's chain
ChainAddrs(key) == {Chain(key)[i].addr : i \in 1..Len(Chain(key))}

\* C18: every allocated node is on exactly one key's chain, and once; no freed
\* node is on a chain; a call frees at most the one head node that compaction
\* takes off the chain of its key.
C18_Ownership ==
    /\ [](/\ \A a \in allocated : Cardinality({k \in Keys : a \in ChainAddrs(k)}) = 1
          /\ \A k \in Keys :
                /\ ChainAddrs(k) \subseteq allocated
                /\ Cardinality(ChainAddrs(k)) = Len(Chain(k)))
    /\ [][\A a \in allocated \ allocated' :
             /\ allocated \ allocated' = {a}
             /\ last'.op \in Mutation
             /\ \E k \in Keys :
                   /\ last'.key = k
                   /\ key_value_store[k] = a
                   /\ key_value_store'[k] = heap[a].prev_diff
                   /\ Len(Chain(k))' = Len(Chain(k)) - 1]_vars

\* the second diff allocated was freed by compaction while the first and the
\* third are on the chains of two keys
C18_Witness ==
    /\ last.op \in Mutation
    /\ allocated = {1, 3}
    /\ \A k \in Keys : k <= 2 => Len(Chain(k)) = 1

\* C19: with a writer and a reader thread and no lock, the reader's chain walk
\* dereferences a diff that compaction has deleted; it does so only when a
\* step of set/erase fell inside the walk (calls that do not overlap are safe).
C19_UnsafeInterleaving ==
    walk.pc = "uaf" => walk.overlap /\ Dangling(walk.curr)

\* the walk loaded the head, compaction then unlinked and deleted that head,
\* and the walk dereferenced it
C19_Witness ==
    /\ walk.pc = "uaf"
    /\ walk.overlap
    /\ walk.curr \in walk.freed
    /\ walk.curr \notin allocated
    /\ wr.pc = "idle"
    /\ key_value_store[walk.key] # walk.curr
====
